---- MODULE Spec2Model ----
(***************************************************************************)
(* State-machine model of logger.c: the process-wide logging context       *)
(* (static Logger), its setup / setter / toggle operations, the dispatch   *)
(* path logger_log, the default transformers and sink, and the console /   *)
(* file / csv preset factories with the stream they own.                   *)
(*                                                                         *)
(* Strings are abstracted to their lengths (a message is the number of     *)
(* characters before its terminator); function pointers and handles are    *)
(* names.  Records that reach a destination are kept by kind.              *)
(***************************************************************************)
EXTENDS Integers, Sequences, FiniteSets, TLC

VARIABLES
  Logger,                     \* static logging_context Logger
  logger_factory_file_file,   \* static FILE *: 0 is the null pointer, h > 0 a handle
  files,                      \* files[h]: the stream fopen returned as handle h
  stdout,                     \* records written to the standard output stream
  atexit_hooks,               \* number of registered logger_factory_file_exit hooks
  crashed,                    \* the process was terminated by undefined behaviour
  ever_setup,                 \* history: some logger_setup_context has succeeded
  csv_streams,                \* history: handles opened by a successful logger_factory_csv
  process,                    \* the process: running or in exit(), and the exit hooks still to run
  threads,                    \* two threads inside logger_log and logger_setup_context
  last                        \* history: the operation just performed and its outcome

vars == <<Logger, logger_factory_file_file, files, stdout,
          atexit_hooks, crashed, ever_setup, csv_streams, process, threads,
          last>>

(***************************************************************************)
(* Program constants                                                       *)
(***************************************************************************)
NULL == "NULL"

\* an integer field that holds no value (below every value one can hold)
None == 0 - 2

LOGGER_EMERGENCY == 0

LOGGER_DEBUG == 7

LOGGER_MESSAGE_BUFFER == 2048

\* "%-10s": the severity name is left-justified in a field of 10
SeverityFieldWidth == 10

\* strlen of each row of log_level_mapping (both tables hold the same names,
\* upper case in the console transformer, lower case in the csv one)
log_level_mapping == <<9, 5, 8, 5, 7, 6, 4, 5>>

(***************************************************************************)
(* Bounds of the model and the inputs drawn by the operations              *)
(***************************************************************************)
\* data records that may reach the destinations in one run
MaxLogs == 2

\* streams that fopen may hand out in one run
MaxFiles == 2

\* logger_setup_context calls the second thread may make in one run
MaxSetups == 2

\* thresholds handed to setup, set_loglevel and the presets
LevelArgs == {-1, 0, 7, 8}

\* severities handed to logger_log
Severities == {-1, 0, 3, 7, 8}

\* __FILE__ of a call site, or a null pointer
FileArgs == {NULL, "./src/logger.c"}

\* format strings, or a null pointer
FormatArgs == {NULL, "fmt"}

\* __LINE__ of a call site
Lines == {456}

\* what vsnprintf reports for the format and its arguments: the interpolated
\* length (an output error, a negative value, takes the branch of 0)
VsnprintfResults == {0, 1, LOGGER_MESSAGE_BUFFER - 1,
                     LOGGER_MESSAGE_BUFFER, LOGGER_MESSAGE_BUFFER + 1}

\* time(NULL)
Timestamps == {1633035745}

\* what strftime("%c") reports: 0 on failure, else the length of the
\* locale's date and time representation ("Thu Sep 30 23:02:25 2021")
StrftimeResults == {0, 24}

\* destination paths handed to the file presets, or a null pointer
PathArgs == {NULL, "./logger_tests_long_filename.txt"}

\* caller-supplied capabilities (tests_init_output, tests_init_transform, ...)
OutputFunctionArgs == {NULL, "user_output"}

TransformFunctionArgs == {NULL, "user_transform"}

\* a void * / FILE * value: what it points to and, for a stream of fopen, which
Pointer(obj, id) == [obj |-> obj, id |-> id]

NullPointer == Pointer(NULL, 0)

Stdout == Pointer("stdout", 0)

FilePointer(h) == Pointer("file", h)

OutputDataArgs == {Pointer("user_buffer", 0)}

(***************************************************************************)
(* Helpers                                                                 *)
(***************************************************************************)
Min(a, b) == IF a < b THEN a ELSE b

Max(a, b) == IF a > b THEN a ELSE b

\* number of characters "%d" / "%ld" prints for n >= 0
RECURSIVE Digits(_)
Digits(n) == IF n < 10 THEN 1 ELSE 1 + Digits(n \div 10)

(***************************************************************************)
(* The context: setup, setters, queries                                    *)
(***************************************************************************)
\* static logging_context Logger = {0};
ZeroContext ==
  [log_level |-> 0, output_object |-> NullPointer, output_function |-> NULL,
   transform_function |-> NULL, is_active |-> FALSE]

\* mutant: the threshold is stored before the capabilities are checked
logger_setup_context_partial(L, log_level, output_data, output_function, transform_function, is_active) ==
  IF log_level < 0 \/ log_level > 7 THEN [ret |-> 0, Logger |-> L]
  ELSE IF output_function = NULL \/ transform_function = NULL
    THEN [ret |-> -1, Logger |-> [L EXCEPT !.log_level = log_level]]
  ELSE [ret |-> 1,
        Logger |-> [log_level |-> log_level, output_object |-> output_data,
                    output_function |-> output_function,
                    transform_function |-> transform_function,
                    is_active |-> is_active]]

logger_setup_context(L, log_level, output_data, output_function, transform_function, is_active) ==
  IF log_level < 0 \/ log_level > 7 THEN [ret |-> 0, Logger |-> L]
  ELSE IF output_function = NULL \/ transform_function = NULL
    THEN [ret |-> -1, Logger |-> L]
  ELSE [ret |-> 1,
        Logger |-> [log_level |-> log_level, output_object |-> output_data,
                    output_function |-> output_function,
                    transform_function |-> transform_function,
                    is_active |-> is_active]]

logger_set_output_callback(L, new_output) ==
  IF L.output_function = NULL \/ new_output = NULL
    THEN [ret |-> 0, Logger |-> L]
  ELSE [ret |-> 1, Logger |-> [L EXCEPT !.output_function = new_output]]

logger_set_loglevel(L, log_level) ==
  IF log_level < 0 \/ L.log_level = log_level
    THEN [ret |-> 0, Logger |-> L]
  ELSE [ret |-> 1, Logger |-> [L EXCEPT !.log_level = log_level]]

logger_set_transform(L, new_transform) ==
  IF L.output_function = NULL \/ new_transform = NULL
    THEN [ret |-> 0, Logger |-> L]
  ELSE [ret |-> 1, Logger |-> [L EXCEPT !.transform_function = new_transform]]

\* mutant: every call flips the flag
logger_toggle_flip(L, set_active) == [L EXCEPT !.is_active = ~@]

logger_toggle(L, set_active) ==
  IF set_active = L.is_active THEN L
  ELSE [L EXCEPT !.is_active = set_active]

logger_get_status(L) == L.is_active

logger_is_initialized(L) ==
  IF /\ L.transform_function # NULL
     /\ L.output_function # NULL
     /\ L.log_level >= LOGGER_EMERGENCY
     /\ L.log_level <= LOGGER_DEBUG
    THEN TRUE
  ELSE FALSE

(***************************************************************************)
(* C library calls used by the dispatch path and the transformers          *)
(***************************************************************************)
\* snprintf / vsnprintf into a buffer of `size` bytes when the complete
\* output has n characters (n < 0: output error): the value returned and
\* the number of characters stored before the terminator
vsnprintf(size, n) ==
  [ret |-> n, len |-> IF n < 0 THEN 0 ELSE Min(n, size - 1)]

(***************************************************************************)
(* Default transformers.  A transformer result is                          *)
(*   result  : NULL, or "message" for the buffer handed back               *)
(*   max_pos : highest index of tmp_buffer[LOGGER_MESSAGE_BUFFER] written   *)
(*             (the terminator's), None when nothing was written           *)
(*   len     : characters of the record before its terminator              *)
(* The raw message is the length of the text in logger_log's buffer; a     *)
(* negative length stands for a null pointer.                              *)
(***************************************************************************)
NoResult == [result |-> NULL, max_pos |-> None, len |-> None]

\* offset is what strftime(tmp_buffer, LOGGER_MESSAGE_BUFFER, "%c", ...) returned
logger_factory_console_transform(offset, log_level, file, filenumber, message) ==
  IF log_level < LOGGER_EMERGENCY \/ log_level > LOGGER_DEBUG
     \/ message < 0 \/ file = NULL
    THEN NoResult
  ELSE IF offset < 1 THEN [NoResult EXCEPT !.max_pos = 0]
  ELSE \* " %-10s %s:%d - %s\n" written at tmp_buffer + offset, size LOGGER_MESSAGE_BUFFER
       LET total == 1 + Max(SeverityFieldWidth, log_level_mapping[log_level + 1])
                    + 1 + Len(file) + 1 + Digits(filenumber) + 3 + message + 1
           out == vsnprintf(LOGGER_MESSAGE_BUFFER, total)
       IN IF out.ret < 1 THEN [NoResult EXCEPT !.max_pos = offset]
          ELSE [result |-> "message", max_pos |-> offset + out.len,
                len |-> offset + out.len]

logger_factory_csv_transform(timestamp, log_level, file, filenumber, message) ==
  IF log_level < LOGGER_EMERGENCY \/ log_level > LOGGER_DEBUG
     \/ message < 0 \/ file = NULL
    THEN NoResult
  ELSE \* "%ld,%s,%s,%i,%s\n" written at tmp_buffer, size LOGGER_MESSAGE_BUFFER
       LET total == Digits(timestamp) + 1 + log_level_mapping[log_level + 1]
                    + 1 + Len(file) + 1 + Digits(filenumber) + 1 + message + 1
           out == vsnprintf(LOGGER_MESSAGE_BUFFER, total)
       IN IF out.ret < 1 THEN [NoResult EXCEPT !.max_pos = 0]
          ELSE [result |-> "message", max_pos |-> out.len, len |-> out.len]

\* a caller-supplied transformer (typedef logger_transform): hands back the
\* buffer, rewritten in place, or a null pointer
user_transform(result, message) ==
  IF result = NULL THEN NoResult
  ELSE [result |-> "message", max_pos |-> None, len |-> message]

\* memcpy(message, &tmp_buffer, LOGGER_MESSAGE_BUFFER): the message handed back
\* has a terminator only if one lies inside the first LOGGER_MESSAGE_BUFFER bytes
Terminated(t) == t.max_pos = None \/ t.max_pos < LOGGER_MESSAGE_BUFFER

\* a write of the transformer outside tmp_buffer[LOGGER_MESSAGE_BUFFER]
Overflows(t) == t.max_pos # None /\ t.max_pos >= LOGGER_MESSAGE_BUFFER

(***************************************************************************)
(* Destinations                                                            *)
(***************************************************************************)
HeaderRecord == [kind |-> "header"]

\* the record a transformer's message is, once written to a destination
DataRecord(transform_function, t, log_level, linenumber) ==
  [kind |-> "data"]

CountData(content) ==
  Cardinality({i \in 1..Len(content) : content[i].kind # "header"})

RECURSIVE FilesData(_, _)
FilesData(fs, h) == IF h = 0 THEN 0 ELSE CountData(fs[h].content) + FilesData(fs, h - 1)

DataRecords ==
  CountData(stdout) + FilesData(files, Len(files))

IsFile(handle) == handle.obj = "file"

\* a stream: the records written to it and the fclose calls made on it
NewStream == [content |-> <<>>, closes |-> 0]

IsOpen(stream) == stream.closes = 0

\* fflush(f); fclose(f)
Fclose(fs, h) == [fs EXCEPT ![h].closes = @ + 1]

(***************************************************************************)
(* History record of the last operation                                    *)
(***************************************************************************)
NoCall ==
  [op |-> "none", ret |-> None, arg |-> None,
   log_level |-> None, present |-> FALSE,
   diag |-> "none", vsn |-> None, raw_len |-> None,
   transform_calls |-> 0, transform_result |-> "none", max_pos |-> None,
   sink_calls |-> 0]

Call(op, arg, ret) == [NoCall EXCEPT !.op = op, !.arg = arg, !.ret = ret]

(***************************************************************************)
(* The process and its threads                                             *)
(***************************************************************************)
\* main has been entered; exit() has not been called
Started == [phase |-> "running", pending |-> 0]

\* a thread that is in no call.  Of the thread in logger_log: the severity
\* of its call, the fields of Logger it has read (used) and those line 197
\* has still to read (todo).  Of the thread in logger_setup_context: the
\* arguments of its call.
IdleLog == [pc |-> "idle", log_level |-> None, used |-> ZeroContext, todo |-> {}]

IdleSetup == [pc |-> "idle", args |-> ZeroContext]

\* no second thread has been started: every call runs to its end alone.
\* instants: the values Logger has had since the logger_log in progress began
\* setups: the logger_setup_context calls the second thread has entered
NoThreads ==
  [log |-> IdleLog, setup |-> IdleSetup, instants |-> {}, setups |-> 0]

\* the process can make a call: it was not terminated and is not in exit()
Running == ~crashed /\ process.phase = "running"

(***************************************************************************)
(* Initial state                                                           *)
(***************************************************************************)
Init ==
  /\ Logger = ZeroContext
  /\ logger_factory_file_file = 0
  /\ files = <<>>
  /\ stdout = <<>>
  /\ atexit_hooks = 0
  /\ crashed = FALSE
  /\ ever_setup = FALSE
  /\ csv_streams = {}
  /\ process = Started
  /\ threads = NoThreads
  /\ last = NoCall

(***************************************************************************)
(* Operations of the context                                               *)
(***************************************************************************)
SetupContext ==
  /\ Running
  /\ \E log_level \in LevelArgs, output_data \in OutputDataArgs,
        output_function \in OutputFunctionArgs,
        transform_function \in TransformFunctionArgs, is_active \in BOOLEAN :
       LET r == logger_setup_context(Logger, log_level, output_data,
                                     output_function, transform_function,
                                     is_active)
       IN /\ Logger' = r.Logger
          /\ ever_setup' = (ever_setup \/ r.ret > 0)
          /\ last' = Call("logger_setup_context",
                          IF /\ log_level \in 0..7
                             /\ output_function # NULL
                             /\ transform_function # NULL
                            THEN 1 ELSE 0,
                          r.ret)
  /\ UNCHANGED <<process, threads, logger_factory_file_file, files, stdout,
                 atexit_hooks, crashed, csv_streams>>

SetOutputCallback ==
  /\ Running
  /\ \E new_output \in OutputFunctionArgs :
       LET r == logger_set_output_callback(Logger, new_output)
       IN /\ Logger' = r.Logger
          /\ last' = Call("logger_set_output_callback",
                          IF new_output # NULL THEN 1 ELSE 0, r.ret)
  /\ UNCHANGED <<process, threads, logger_factory_file_file, files, stdout,
                 atexit_hooks, crashed, ever_setup, csv_streams>>

SetLoglevel ==
  /\ Running
  /\ \E log_level \in LevelArgs :
       LET r == logger_set_loglevel(Logger, log_level)
       IN /\ Logger' = r.Logger
          /\ last' = Call("logger_set_loglevel", log_level, r.ret)
  /\ UNCHANGED <<process, threads, logger_factory_file_file, files, stdout,
                 atexit_hooks, crashed, ever_setup, csv_streams>>

SetTransform ==
  /\ Running
  /\ \E new_transform \in TransformFunctionArgs :
       LET r == logger_set_transform(Logger, new_transform)
       IN /\ Logger' = r.Logger
          /\ last' = Call("logger_set_transform",
                          IF new_transform # NULL THEN 1 ELSE 0, r.ret)
  /\ UNCHANGED <<process, threads, logger_factory_file_file, files, stdout,
                 atexit_hooks, crashed, ever_setup, csv_streams>>

Toggle ==
  /\ Running
  /\ \E set_active \in BOOLEAN :
       /\ Logger' = logger_toggle(Logger, set_active)
       /\ last' = Call("logger_toggle", IF set_active THEN 1 ELSE 0, None)
  /\ UNCHANGED <<process, threads, logger_factory_file_file, files, stdout,
                 atexit_hooks, crashed, ever_setup, csv_streams>>

GetStatus ==
  /\ Running
  /\ last' = Call("logger_get_status", None,
                  IF logger_get_status(Logger) THEN 1 ELSE 0)
  /\ UNCHANGED <<process, threads, Logger, logger_factory_file_file, files, stdout,
                 atexit_hooks, crashed, ever_setup, csv_streams>>

IsInitialized ==
  /\ Running
  /\ last' = Call("logger_is_initialized", None,
                  IF logger_is_initialized(Logger) THEN 1 ELSE 0)
  /\ UNCHANGED <<process, threads, Logger, logger_factory_file_file, files, stdout,
                 atexit_hooks, crashed, ever_setup, csv_streams>>

(***************************************************************************)
(* logger_log                                                              *)
(***************************************************************************)
\* mutant: the source file is not checked
log_args_invalid_nofile(log_level, file, message) ==
  log_level < 0 \/ log_level > 7 \/ message = NULL

\* line 184: the argument check
log_args_invalid(log_level, file, message) ==
  log_level < 0 \/ log_level > 7 \/ message = NULL \/ file = NULL

\* mutant: the threshold itself is filtered out
log_filtered_strict(L, log_level) ==
  log_level >= L.log_level \/ L.is_active = FALSE

\* line 188: the filter check
log_filtered(L, log_level) ==
  log_level > L.log_level \/ L.is_active = FALSE

\* mutant: the terminator is not counted in the space of message_buffer
raw_format_full(n) == [ret |-> n, len |-> IF n < 0 THEN 0 ELSE Min(n, LOGGER_MESSAGE_BUFFER)]

\* line 192: vsnprintf(message_buffer, LOGGER_MESSAGE_BUFFER, message, parameter_list)
raw_format(n) == vsnprintf(LOGGER_MESSAGE_BUFFER, n)

\* what undefined behaviour may do to the process
UbOutcomes == {"crash", "continue"}

\* the state after the call, when the call changes nothing but `last`
Returns(l) ==
  /\ last' = l
  /\ UNCHANGED <<process, threads, Logger, logger_factory_file_file, files, stdout,
                 atexit_hooks, crashed, ever_setup, csv_streams>>

\* the process is terminated inside the call
Crashes(l) ==
  /\ last' = l
  /\ crashed' = TRUE
  /\ UNCHANGED <<process, threads, Logger, logger_factory_file_file, files, stdout,
                 atexit_hooks, ever_setup, csv_streams>>

\* fprintf((FILE *)custom_object, message) of a well-formed message on an
\* open stream
Fprintf(handle, rec) ==
  /\ stdout' = IF handle = Stdout THEN Append(stdout, rec) ELSE stdout
  /\ files' = IF IsFile(handle)
                THEN [files EXCEPT ![handle.id].content = Append(@, rec)]
              ELSE files

\* line 197, outer call: Logger.output_function(Logger.output_object, message)
\* where t is what the transformer handed back
CallOutput(l, t, rec, ub) ==
  LET handle == Logger.output_object
      l1 == [l EXCEPT !.sink_calls = 1]
  IN IF Logger.output_function = "logger_factory_console_output"
       THEN \* lines 74-79; a null format, a closed stream: undefined
            IF t.result = NULL \/ (IsFile(handle) /\ ~IsOpen(files[handle.id]))
              THEN IF ub = "crash" THEN Crashes(l1) ELSE Returns(l1)
            ELSE /\ Fprintf(handle, rec)
                 /\ last' = l1
                 /\ UNCHANGED <<process, threads, Logger, logger_factory_file_file,
                                atexit_hooks, crashed, ever_setup, csv_streams>>
     ELSE \* a caller-supplied sink (typedef logger_push_log): what it does
          \* with the message is its own; its status only selects the
          \* diagnostic of line 198
          IF t.result = NULL
            THEN IF ub = "crash" THEN Crashes(l1) ELSE Returns(l1)
          ELSE Returns(l1)

\* line 197: the transformer's result is handed to the sink as it is
Dispatch(l, t, rec, ub) ==
  LET l1 == [l EXCEPT !.transform_calls = 1,
                      !.transform_result = t.result,
                      !.max_pos = t.max_pos]
  IN IF Overflows(t) /\ ub = "crash"
       THEN Crashes(l1)      \* the write past tmp_buffer ends the process
     ELSE CallOutput(l1, t, rec, ub)

\* line 197, inner call: Logger.transform_function(time(0), log_level, file,
\* linenumber, message_buffer)
CallTransform(l, log_level, file, linenumber, raw_len) ==
  LET fn == Logger.transform_function
  IN IF fn = NULL
       THEN Crashes(l)       \* a call through a null function pointer
     ELSE \E ub \in UbOutcomes :
       IF fn = "logger_factory_console_transform"
         THEN \E offset \in StrftimeResults :
                LET t == logger_factory_console_transform(
                           offset, log_level, file, linenumber, raw_len)
                IN Dispatch(l, t, DataRecord(fn, t, log_level, linenumber), ub)
       ELSE IF fn = "logger_factory_csv_transform"
         THEN \E timestamp \in Timestamps :
                LET t == logger_factory_csv_transform(
                           timestamp, log_level, file, linenumber, raw_len)
                IN Dispatch(l, t, DataRecord(fn, t, log_level, linenumber), ub)
       ELSE \E result \in {NULL, "message"} :
                LET t == user_transform(result, raw_len)
                IN Dispatch(l, t, DataRecord(fn, t, log_level, linenumber), ub)

Log ==
  /\ Running
  /\ DataRecords < MaxLogs
  /\ \E log_level \in Severities, file \in FileArgs, linenumber \in Lines,
        message \in FormatArgs, n \in VsnprintfResults :
       \* n is the length `message` interpolates to; a call without its
       \* source file or its format has none
       LET present == file # NULL /\ message # NULL
           l == [NoCall EXCEPT !.op = "logger_log", !.log_level = log_level,
                               !.present = present,
                               !.vsn = IF present THEN n ELSE None]
       IN /\ ~present => n = 1
          /\ IF log_args_invalid(log_level, file, message)
               THEN Returns([l EXCEPT !.diag = "arguments"])
             ELSE IF log_filtered(Logger, log_level) THEN Returns(l)
             ELSE LET f == raw_format(n)
                  IN IF f.ret < 1 THEN Returns([l EXCEPT !.diag = "format"])
                     ELSE CallTransform([l EXCEPT !.raw_len = f.len],
                                        log_level, file, linenumber, f.len)

(***************************************************************************)
(* Preset factories.  They act on W, the static state they touch:          *)
(*   Logger, file (logger_factory_file_file), files, hooks (atexit)        *)
(* under env, what the C library answers: fopen_ok, atexit_ok, and ub, the *)
(* outcome of undefined behaviour.  The result is the value returned, the  *)
(* state left, and whether the process was terminated.                     *)
(***************************************************************************)
World ==
  [Logger |-> Logger, file |-> logger_factory_file_file, files |-> files,
   hooks |-> atexit_hooks]

logger_factory_console(L, log_level) ==
  logger_setup_context(L, log_level, Stdout, "logger_factory_console_output",
                       "logger_factory_console_transform", TRUE)

\* mutant: a failed fopen is reported with the status of rejected arguments
logger_factory_file_nofile_generic(W, fs) ==
  [ret |-> -1, W |-> [W EXCEPT !.files = fs, !.file = 0], crashed |-> FALSE]

\* lines 107-110: fopen has stored a null pointer in logger_factory_file_file;
\* fs is the streams after lines 102-105
logger_factory_file_nofile(W, fs) ==
  [ret |-> -2, W |-> [W EXCEPT !.files = fs, !.file = 0], crashed |-> FALSE]

logger_factory_file(W, log_level, file_path, env) ==
  IF file_path = NULL \/ log_level < LOGGER_EMERGENCY \/ log_level > LOGGER_DEBUG
    THEN [ret |-> -1, W |-> W, crashed |-> FALSE]
  ELSE
    LET old == W.file
        \* fflush / fclose of a stream that line 113 has closed already
        stale == old # 0 /\ ~IsOpen(W.files[old])
    IN IF stale /\ env.ub = "crash"
         THEN [ret |-> None, W |-> W, crashed |-> TRUE]
       ELSE
         LET fs1 == IF old # 0 THEN Fclose(W.files, old) ELSE W.files
         IN IF ~env.fopen_ok
              THEN logger_factory_file_nofile(W, fs1)
            ELSE
              LET h == Len(fs1) + 1
                  fs2 == Append(fs1, NewStream)
              IN IF ~env.atexit_ok
                   THEN [ret |-> -3,
                         W |-> [W EXCEPT !.files = Fclose(fs2, h), !.file = h],
                         crashed |-> FALSE]
                 ELSE
                   LET r == logger_setup_context(
                              W.Logger, log_level, FilePointer(h),
                              "logger_factory_console_output",
                              "logger_factory_console_transform", TRUE)
                   IN [ret |-> r.ret,
                       W |-> [Logger |-> r.Logger, file |-> h, files |-> fs2,
                              hooks |-> W.hooks + 1],
                       crashed |-> FALSE]

\* mutant: the header is not written
logger_factory_csv_noheader(W, log_level, file_path, env) ==
  LET r == logger_factory_file(W, log_level, file_path, env)
  IN IF r.crashed \/ r.ret <= 0 THEN r
     ELSE LET s == logger_set_transform(r.W.Logger, "logger_factory_csv_transform")
          IN [r EXCEPT !.W.Logger = s.Logger]

logger_factory_csv(W, log_level, file_path, env) ==
  LET r == logger_factory_file(W, log_level, file_path, env)
  IN IF r.crashed \/ r.ret <= 0 THEN r
     ELSE LET s == logger_set_transform(r.W.Logger, "logger_factory_csv_transform")
          IN [r EXCEPT !.W.Logger = s.Logger,
                       !.W.files[r.W.file].content = Append(@, HeaderRecord)]

\* what a file preset call meets: 0 its arguments are rejected (line 99),
\* 1 fopen fails, 2 atexit fails, 3 every library call succeeds
FactoryCase(log_level, file_path, env) ==
  IF file_path = NULL \/ log_level < LOGGER_EMERGENCY \/ log_level > LOGGER_DEBUG
    THEN 0
  ELSE IF ~env.fopen_ok THEN 1
  ELSE IF ~env.atexit_ok THEN 2
  ELSE 3

\* the state after a file preset call that met `case` and had result r
Leaves(op, case, r) ==
  /\ Logger' = r.W.Logger
  /\ logger_factory_file_file' = r.W.file
  /\ files' = r.W.files
  /\ atexit_hooks' = r.W.hooks
  /\ crashed' = r.crashed
  /\ ever_setup' = (ever_setup \/ r.ret > 0)
  /\ csv_streams' = IF op = "logger_factory_csv" /\ r.ret > 0
                      THEN csv_streams \cup {r.W.file} ELSE csv_streams
  /\ last' = Call(op, IF r.crashed THEN None ELSE case, r.ret)
  /\ UNCHANGED <<stdout, process, threads>>

\* what the C library may answer to a file preset; one answer stands for all
\* where the call does not ask (the arguments are rejected before any library
\* call; no stream is closed twice; fopen has failed)
Envs(log_level, file_path) ==
  {e \in [fopen_ok : BOOLEAN, atexit_ok : BOOLEAN, ub : UbOutcomes] :
     /\ e.fopen_ok => Len(files) < MaxFiles
     /\ (file_path = NULL \/ log_level \notin 0..7)
          => (~e.fopen_ok /\ ~e.atexit_ok /\ e.ub = "continue")
     /\ (logger_factory_file_file = 0
          \/ IsOpen(files[logger_factory_file_file])) => e.ub = "continue"
     /\ ~e.fopen_ok => ~e.atexit_ok}

FactoryConsole ==
  /\ Running
  /\ \E log_level \in LevelArgs :
       LET r == logger_factory_console(Logger, log_level)
       IN /\ Logger' = r.Logger
          /\ ever_setup' = (ever_setup \/ r.ret > 0)
          /\ last' = Call("logger_factory_console", None, r.ret)
  /\ UNCHANGED <<process, threads, logger_factory_file_file, files, stdout,
                 atexit_hooks, crashed, csv_streams>>

FactoryFile ==
  /\ Running
  /\ \E log_level \in LevelArgs, file_path \in PathArgs :
     \E env \in Envs(log_level, file_path) :
       Leaves("logger_factory_file", FactoryCase(log_level, file_path, env),
              logger_factory_file(World, log_level, file_path, env))

FactoryCsv ==
  /\ Running
  /\ \E log_level \in LevelArgs, file_path \in PathArgs :
     \E env \in Envs(log_level, file_path) :
       Leaves("logger_factory_csv", FactoryCase(log_level, file_path, env),
              logger_factory_csv(World, log_level, file_path, env))

Next ==
  \/ SetupContext
  \/ SetOutputCallback
  \/ SetLoglevel
  \/ SetTransform
  \/ Toggle
  \/ GetStatus
  \/ IsInitialized
  \/ Log
  \/ FactoryConsole
  \/ FactoryFile
  \/ FactoryCsv

Spec == Init /\ [][Next]_vars

(***************************************************************************)
(* Two threads, with no lock between them: one in logger_log, which reads  *)
(* the fields of Logger at lines 188 and 197, one in logger_setup_context, *)
(* which writes them at lines 252-256.  A step is one read or one write.   *)
(***************************************************************************)
\* the context a first logger_setup_context call of the main thread left
ConfiguredContext ==
  logger_setup_context(ZeroContext, LOGGER_DEBUG, Pointer("user_buffer", 0),
                       "user_output", "user_transform", TRUE).Logger

ThreadInit ==
  /\ Logger = ConfiguredContext
  /\ logger_factory_file_file = 0
  /\ files = <<>>
  /\ stdout = <<>>
  /\ atexit_hooks = 0
  /\ crashed = FALSE
  /\ ever_setup = TRUE
  /\ csv_streams = {}
  /\ process = Started
  /\ threads = NoThreads
  /\ last = NoCall

\* what the thread actions leave alone
ThreadFrame ==
  UNCHANGED <<process, logger_factory_file_file, files, atexit_hooks,
              ever_setup, csv_streams, last>>

\* line 184: a call with valid arguments is entered
LogEnter ==
  /\ Running
  /\ DataRecords < MaxLogs
  /\ threads.log.pc = "idle"
  /\ \E log_level \in Severities \cap (0..7) :
       threads' = [threads EXCEPT !.log = [IdleLog EXCEPT !.pc = "line188_level",
                                                          !.log_level = log_level],
                                  !.instants = {Logger}]
  /\ UNCHANGED <<Logger, stdout, crashed>>
  /\ ThreadFrame

\* line 188, left operand: log_level > Logger.log_level
LogReadLevel ==
  /\ Running
  /\ threads.log.pc = "line188_level"
  /\ threads' = IF log_filtered([Logger EXCEPT !.is_active = TRUE],
                                threads.log.log_level)
                  THEN [threads EXCEPT !.log = IdleLog]
                ELSE [threads EXCEPT !.log.pc = "line188_active",
                                     !.log.used.log_level = Logger.log_level]
  /\ UNCHANGED <<Logger, stdout, crashed>>
  /\ ThreadFrame

\* line 188, right operand: Logger.is_active == false
LogReadActive ==
  /\ Running
  /\ threads.log.pc = "line188_active"
  /\ threads' = IF Logger.is_active = FALSE
                  THEN [threads EXCEPT !.log = IdleLog]
                ELSE [threads EXCEPT
                        !.log.pc = "line197",
                        !.log.used.is_active = Logger.is_active,
                        !.log.todo = {"output_object", "output_function",
                                      "transform_function"}]
  /\ UNCHANGED <<Logger, stdout, crashed>>
  /\ ThreadFrame

\* line 197: the three fields are read, in an order the language leaves open
LogReadField ==
  /\ Running
  /\ threads.log.pc = "line197"
  /\ \E f \in threads.log.todo :
       threads' = [threads EXCEPT !.log.used[f] = Logger[f],
                                  !.log.todo = @ \ {f}]
  /\ UNCHANGED <<Logger, stdout, crashed>>
  /\ ThreadFrame

\* line 197: the calls, with the values read.  The default sink on a handle
\* that is no stream is undefined; a caller's sink keeps its effect to itself
LogCall ==
  /\ Running
  /\ threads.log.pc = "line197"
  /\ threads.log.todo = {}
  /\ threads' = [threads EXCEPT !.log = IdleLog]
  /\ LET used == threads.log.used
     IN IF used.output_function = "logger_factory_console_output"
          THEN IF used.output_object = Stdout
                 THEN /\ stdout' = Append(stdout, [kind |-> "data"])
                      /\ UNCHANGED crashed
               ELSE /\ crashed' \in {TRUE, FALSE}
                    /\ UNCHANGED stdout
        ELSE UNCHANGED <<stdout, crashed>>
  /\ UNCHANGED Logger
  /\ ThreadFrame

\* lines 247-251: logger_setup_context is entered with arguments that pass;
\* the call is the one of logger_factory_console or one with a caller's sink
SetupEnter ==
  /\ Running
  /\ threads.setup.pc = "idle"
  /\ threads.setups < MaxSetups
  /\ \E log_level \in LevelArgs \cap (0..7), is_active \in BOOLEAN,
        preset \in BOOLEAN :
       LET r == IF preset THEN logger_factory_console(ZeroContext, log_level)
                ELSE logger_setup_context(ZeroContext, log_level,
                                          Pointer("user_buffer", 0),
                                          "user_output", "user_transform",
                                          is_active)
       IN /\ preset => is_active
          /\ r.ret > 0
          /\ threads' = [threads EXCEPT !.setup = [pc |-> "log_level",
                                                   args |-> r.Logger],
                                        !.setups = @ + 1]
  /\ UNCHANGED <<Logger, stdout, crashed>>
  /\ ThreadFrame

\* the field that lines 252-256 write after field f
NextField(f) ==
  CASE f = "log_level" -> "output_object"
    [] f = "output_object" -> "output_function"
    [] f = "output_function" -> "transform_function"
    [] f = "transform_function" -> "is_active"
    [] f = "is_active" -> "idle"

\* one of lines 252-256
SetupWrite ==
  /\ Running
  /\ threads.setup.pc # "idle"
  /\ LET f == threads.setup.pc
         L == [Logger EXCEPT ![f] = threads.setup.args[f]]
     IN /\ Logger' = L
        /\ threads' = [threads EXCEPT
                         !.setup = IF NextField(f) = "idle" THEN IdleSetup
                                   ELSE [@ EXCEPT !.pc = NextField(f)],
                         !.instants = IF threads.log.pc = "idle" THEN @
                                      ELSE @ \cup {L}]
  /\ UNCHANGED <<stdout, crashed>>
  /\ ThreadFrame

ThreadNext ==
  \/ LogEnter
  \/ LogReadLevel
  \/ LogReadActive
  \/ LogReadField
  \/ LogCall
  \/ SetupEnter
  \/ SetupWrite

ThreadSpec == ThreadInit /\ [][ThreadNext]_vars

(***************************************************************************)
(* Normal process exit: exit() runs the functions registered with atexit,  *)
(* one call for each registration.                                         *)
(***************************************************************************)
\* mutant: the exit hook leaves the stream as it is
logger_factory_file_exit_noclose(W, ub) == [W |-> W, crashed |-> FALSE]

\* lines 89-95; ub is the outcome of fflush / fclose on a stream that was
\* closed before
logger_factory_file_exit(W, ub) ==
  IF W.file # 0
    THEN IF ~IsOpen(W.files[W.file]) /\ ub = "crash"
           THEN [W |-> W, crashed |-> TRUE]
         ELSE [W |-> [W EXCEPT !.files = Fclose(W.files, W.file)],
               crashed |-> FALSE]
  ELSE [W |-> W, crashed |-> FALSE]

\* main returns, or exit is called
Exit ==
  /\ Running
  /\ process' = [phase |-> "exiting", pending |-> atexit_hooks]
  /\ last' = Call("exit", None, None)
  /\ UNCHANGED <<threads, Logger, logger_factory_file_file, files, stdout,
                 atexit_hooks, crashed, ever_setup, csv_streams>>

\* exit() calls the next registered logger_factory_file_exit
FactoryFileExit ==
  /\ ~crashed
  /\ process.phase = "exiting"
  /\ process.pending > 0
  /\ \E ub \in UbOutcomes :
       LET r == logger_factory_file_exit(World, ub)
       IN /\ (logger_factory_file_file = 0
                \/ IsOpen(files[logger_factory_file_file])) => ub = "continue"
          /\ files' = r.W.files
          /\ crashed' = r.crashed
          /\ process' = [process EXCEPT !.pending = @ - 1]
          /\ last' = Call("logger_factory_file_exit", None, None)
  /\ UNCHANGED <<threads, Logger, logger_factory_file_file, stdout,
                 atexit_hooks, ever_setup, csv_streams>>

\* every registered function has returned: the process ends
Exited ==
  /\ ~crashed
  /\ process.phase = "exiting"
  /\ process.pending = 0
  /\ process' = [process EXCEPT !.phase = "exited"]
  /\ last' = Call("exited", None, None)
  /\ UNCHANGED <<threads, Logger, logger_factory_file_file, files, stdout,
                 atexit_hooks, crashed, ever_setup, csv_streams>>

\* a process that uses the file presets, logs, and ends
ExitNext ==
  \/ FactoryFile
  \/ FactoryCsv
  \/ Log
  \/ Exit
  \/ FactoryFileExit
  \/ Exited

\* exit() does not return before it has called every registered function
ExitSpec ==
  Init /\ [][ExitNext]_vars /\ WF_vars(FactoryFileExit) /\ WF_vars(Exited)

(***************************************************************************)
(* Properties                                                              *)
(***************************************************************************)
Setters ==
  {"logger_set_loglevel", "logger_set_transform", "logger_set_output_callback"}

SetupOperations ==
  {"logger_setup_context", "logger_factory_console", "logger_factory_file",
   "logger_factory_csv"}

\* the last operation was logger_log with a severity in 0..7 and with source
\* file and format present
ValidLog ==
  last.op = "logger_log" /\ last.log_level \in 0..7 /\ last.present

\* ... and the context it met had been set up and had a threshold in 0..7
\* (logger_log leaves Logger as it is)
ValidLogAfterSetup == ValidLog /\ ever_setup /\ Logger.log_level \in 0..7

ValidationLaw ==
  [][(last'.op = "logger_setup_context" /\ last'.arg = 0)
       => (last'.ret <= 0 /\ Logger' = Logger)]_vars

\* C2 witness: a rejected setup on a context that an earlier setup configured
ValidationLawWitness ==
  /\ last.op = "logger_setup_context"
  /\ last.arg = 0
  /\ last.ret <= 0
  /\ ever_setup
  /\ Logger # ZeroContext

\* C3 as stated: once a setup has succeeded, the context stays valid
\* (logger_is_initialized) whatever the single-field mutators are called with.
SettersKeepValid == ever_setup => logger_is_initialized(Logger)

\* C4 as stated: before the first successful setup the three setters report
\* failure, and neither they nor logger_toggle change a field of the
\* zero-valued context.
NoSetterBeforeSetup ==
  ~ever_setup =>
    /\ Logger = ZeroContext
    /\ last.op \in Setters => last.ret <= 0

\* C5 as stated: a step that takes the context from invalid to valid
\* (logger_is_initialized) is a successful setup, direct or through a preset.
OnlySetupValidates ==
  [][(~logger_is_initialized(Logger) /\ logger_is_initialized(Logger'))
       => (last'.op \in SetupOperations /\ last'.ret > 0)]_vars

\* C6 as stated: when the transformer hands back a null result, the sink is
\* not invoked for that call.
NullTransformAborts ==
  (last.op = "logger_log" /\ last.transform_calls = 1
     /\ last.transform_result = NULL)
    => last.sink_calls = 0

\* C7: a logger_log call with a severity outside 0..7, or with the source
\* file or the format absent, returns without side effects in every state of
\* the context: neither transformer nor sink is invoked, nothing reaches a
\* destination, no field of the context changes.
ArgumentValidation ==
  [][(last'.op = "logger_log" /\ (last'.log_level \notin 0..7 \/ ~last'.present))
       => /\ last'.transform_calls = 0
          /\ last'.sink_calls = 0
          /\ UNCHANGED <<Logger, logger_factory_file_file, files, stdout,
                         atexit_hooks, crashed>>]_vars

\* C7 witness: a call that the filter would have let through, rejected for
\* an absent argument
ArgumentValidationWitness ==
  /\ last.op = "logger_log"
  /\ ~last.present
  /\ last.log_level \in 0..7
  /\ last.diag = "arguments"
  /\ ever_setup
  /\ Logger.is_active
  /\ last.log_level <= Logger.log_level

\* a valid call that passed the filter of a configured context
PassedFilter ==
  /\ ValidLog
  /\ ever_setup
  /\ Logger.is_active
  /\ last.log_level <= Logger.log_level

\* C8 as stated: an interpolated length of exactly LOGGER_MESSAGE_BUFFER is
\* passed to the transformer in full, one unit more is cut to exactly
\* LOGGER_MESSAGE_BUFFER, and neither is dropped or reported as an error.
TruncationAtCapacity ==
  (PassedFilter /\ last.vsn >= LOGGER_MESSAGE_BUFFER) =>
    /\ last.transform_calls = 1
    /\ last.diag = "none"
    /\ last.raw_len = LOGGER_MESSAGE_BUFFER

\* C8, amended: an interpolated length of LOGGER_MESSAGE_BUFFER - 1 (the
\* buffer keeps one unit for the terminator) is passed to the transformer in
\* full; a length of LOGGER_MESSAGE_BUFFER or more is cut to
\* LOGGER_MESSAGE_BUFFER - 1; neither is dropped or reported as an error.
TruncationBoundary ==
  (PassedFilter /\ last.vsn >= LOGGER_MESSAGE_BUFFER - 1) =>
    /\ last.transform_calls = 1
    /\ last.diag = "none"
    /\ last.raw_len = LOGGER_MESSAGE_BUFFER - 1

\* C8 witness: a message of exactly LOGGER_MESSAGE_BUFFER units was handed
\* to the transformer, one unit shorter
TruncationBoundaryWitness ==
  /\ PassedFilter
  /\ last.vsn = LOGGER_MESSAGE_BUFFER
  /\ last.transform_calls = 1
  /\ last.raw_len = LOGGER_MESSAGE_BUFFER - 1

\* C9 as stated: whatever the timestamp, severity, file, line and raw
\* message, every unit a default transformer writes into its working buffer
\* (timestamp offset plus record, terminator included) lies below
\* LOGGER_MESSAGE_BUFFER.
TransformFitsBuffer ==
  (last.op = "logger_log" /\ last.transform_calls = 1
     /\ Logger.transform_function \in {"logger_factory_console_transform",
                                       "logger_factory_csv_transform"})
    => last.max_pos < LOGGER_MESSAGE_BUFFER

\* the stream holds one header record, and holds it first
HeaderFirst(content) ==
  /\ Len(content) >= 1
  /\ content[1] = HeaderRecord
  /\ \A i \in 2..Len(content) : content[i] # HeaderRecord

NoHeader(content) == \A i \in 1..Len(content) : content[i] # HeaderRecord

\* C10: every successful logger_factory_csv call writes exactly one header
\* record to the stream it opened, before every data record of that stream,
\* however many logger_log calls follow; a failed call writes no header (no
\* other stream, and not the standard output, holds one).
TabularHeader ==
  /\ \A h \in 1..Len(files) :
       IF h \in csv_streams THEN HeaderFirst(files[h].content)
       ELSE NoHeader(files[h].content)
  /\ NoHeader(stdout)

\* C10 witness: two successful logger_factory_csv calls, two data records
\* behind the header of one of the streams, the other stream closed
TabularHeaderWitness ==
  /\ Cardinality(csv_streams) = 2
  /\ \E h \in csv_streams :
       /\ Len(files[h].content) = 3
       /\ files[h].content[2].kind = "data"
  /\ \E h \in csv_streams : ~IsOpen(files[h])

FileFactories == {"logger_factory_file", "logger_factory_csv"}

\* C11: a logger_factory_file / logger_factory_csv call that cannot open its
\* destination returns a failure status of its own (-2: no other case of the
\* call returns it), and every failing call (absent path or threshold outside
\* 0..7, fopen failed, atexit failed) leaves the five fields of the context
\* as they were.
PresetFailure ==
  [][(last'.op \in FileFactories /\ ~crashed') =>
       /\ (last'.arg = 1 <=> last'.ret = 0 - 2)
       /\ (last'.arg = 0 => last'.ret = 0 - 1)
       /\ (last'.arg = 2 => last'.ret = 0 - 3)
       /\ (last'.arg # 3 => (last'.ret <= 0 /\ Logger' = Logger))]_vars

\* C11 witness: logger_factory_csv could not open its destination, on a
\* context that an earlier setup had configured
PresetFailureWitness ==
  /\ last.op = "logger_factory_csv"
  /\ last.arg = 1
  /\ last.ret = 0 - 2
  /\ ever_setup
  /\ logger_is_initialized(Logger)

\* a stream of the file presets that no fclose has been called on
OpenStreams == {h \in 1..Len(files) : IsOpen(files[h])}

\* C12: once the process exits normally, the destination that is open at that
\* moment is eventually flushed and closed (fflush and fclose of the exit
\* hook), with every record that was delivered to it.
ExitCloses == (process.phase = "exiting" /\ OpenStreams # {}) ~> (OpenStreams = {})

\* C12 witness: the process has ended after two successful preset calls; the
\* stream of the second holds its header and two data records, and is closed
ExitClosesWitness ==
  /\ process.phase = "exited"
  /\ atexit_hooks = 2
  /\ logger_factory_file_file \in csv_streams
  /\ Len(files[logger_factory_file_file].content) = 3
  /\ ~IsOpen(files[logger_factory_file_file])

\* C19 as stated: no stream of the file presets is flushed or closed after it
\* has been closed, whatever preset calls were made and after every exit hook
\* has run.
ClosedAtMostOnce == \A h \in 1..Len(files) : files[h].closes <= 1

\* the context is what a successful logger_factory_file(log_level, path) left,
\* and the stream it opened is open
FilePresetAt(log_level) ==
  /\ logger_factory_file_file # 0
  /\ IsOpen(files[logger_factory_file_file])
  /\ Logger = [log_level |-> log_level,
               output_object |-> FilePointer(logger_factory_file_file),
               output_function |-> "logger_factory_console_output",
               transform_function |-> "logger_factory_console_transform",
               is_active |-> TRUE]

\* C13 as stated: with the file preset at threshold 7 and active, every valid
\* logger_log call adds exactly one record at the end of the destination (n
\* calls give n records in call order), and the record ends in its line
\* terminator.
OneRecordPerCall ==
  [][(/\ FilePresetAt(LOGGER_DEBUG)
      /\ last'.op = "logger_log"
      /\ last'.log_level \in 0..7
      /\ last'.present)
       => /\ \E rec \in {[kind |-> "data"]} :
               files' = [files EXCEPT ![logger_factory_file_file].content =
                                        Append(@, rec)]
          /\ last'.transform_result # NULL
          /\ last'.max_pos < LOGGER_MESSAGE_BUFFER]_vars

\* C14 as stated: logger_set_output_callback and logger_set_transform fail
\* (status <= 0, context unchanged) whenever the context is not initialized
\* (logger_is_initialized) or the new function is absent; otherwise they
\* succeed and replace their own capability field only.
CapabilitySetters ==
  [][(last'.op \in {"logger_set_output_callback", "logger_set_transform"})
       => IF ~logger_is_initialized(Logger) \/ last'.arg = 0
            THEN last'.ret <= 0 /\ Logger' = Logger
          ELSE /\ last'.ret > 0
               /\ Logger'.log_level = Logger.log_level
               /\ Logger'.is_active = Logger.is_active
               /\ Logger'.output_object = Logger.output_object
               /\ last'.op = "logger_set_output_callback"
                    => Logger'.transform_function = Logger.transform_function
               /\ last'.op = "logger_set_transform"
                    => Logger'.output_function = Logger.output_function]_vars

\* C15 as stated: logger_set_loglevel(v) with v the current threshold changes
\* nothing and reports "unchanged", a report that differs from the one of a
\* failure; with v negative it fails and changes nothing; with any other v it
\* stores v as the threshold, changes no other field, and reports success.
SetLoglevelReports ==
  [][(last'.op = "logger_set_loglevel")
       => IF last'.arg < 0
            THEN last'.ret <= 0 /\ Logger' = Logger
          ELSE IF last'.arg = Logger.log_level
            THEN /\ Logger' = Logger
                 /\ last'.ret # logger_set_loglevel(Logger, 0 - 1).ret
          ELSE /\ last'.ret > 0
               /\ Logger' = [Logger EXCEPT !.log_level = last'.arg]]_vars

\* C16: logger_toggle(b) leaves is_active = b (what logger_get_status then
\* returns) and every other field as it was; with b the current value it
\* changes nothing, the filter decision of logger_log for every severity
\* included; a second logger_toggle(b) changes nothing.
ToggleIdempotent ==
  [][(last'.op = "logger_toggle")
       => LET b == (last'.arg = 1)
          IN /\ Logger' = [Logger EXCEPT !.is_active = b]
             /\ logger_get_status(Logger') = b
             /\ b = Logger.is_active =>
                  /\ Logger' = Logger
                  /\ \A s \in Severities :
                       log_filtered(Logger', s) = log_filtered(Logger, s)
             /\ logger_toggle(Logger', b) = Logger']_vars

\* C16 witness: logger_toggle(false) on a context that a setup configured
ToggleIdempotentWitness ==
  /\ last.op = "logger_toggle"
  /\ last.arg = 0
  /\ ever_setup
  /\ logger_is_initialized(Logger)
  /\ ~logger_get_status(Logger)

\* C17 as stated: a logger_log call that passes the argument and the filter
\* check and goes on to line 197 (its message is not empty) finds both
\* capabilities of the context present, in every state that the public
\* operations reach from the zero-valued context.
NeverNullCapability ==
  (/\ ValidLog
   /\ ~log_filtered(Logger, last.log_level)
   /\ last.vsn >= 1)
    => (Logger.transform_function # NULL /\ Logger.output_function # NULL)

\* C18 as stated: whenever the sink handle of the context is a stream of the
\* file presets, that stream is open.
SinkHandleOpen ==
  IsFile(Logger.output_object) => IsOpen(files[Logger.output_object.id])

\* C20 as stated: the five values a dispatch has read when it makes the calls
\* of line 197 are the fields Logger had at one single instant of that
\* dispatch.
ConsistentTuple ==
  (threads.log.pc = "line197" /\ threads.log.todo = {})
    => threads.log.used \in threads.instants

\* C21 as stated: a valid logger_log call that passes the filter check invokes
\* the transformer exactly once and then the sink exactly once, except when
\* its interpolated message is empty (length 0): that call is dropped after a
\* diagnostic, with neither transformer nor sink invoked and no field of the
\* context changed.
OnceEachOrDropped ==
  [][(/\ last'.op = "logger_log"
      /\ last'.log_level \in 0..7
      /\ last'.present
      /\ ~log_filtered(Logger, last'.log_level))
       => IF last'.vsn = 0
            THEN /\ last'.diag = "format"
                 /\ last'.transform_calls = 0
                 /\ last'.sink_calls = 0
                 /\ Logger' = Logger
          ELSE /\ last'.transform_calls = 1
               /\ last'.sink_calls = 1]_vars

====
